---- MODULE Spec2Model ----
(***************************************************************************)
(* Model of cc3200/mods/modussl.c: ussl.wrap_socket().                     *)
(*                                                                         *)
(* The state is the MicroPython heap of socket objects, the security       *)
(* options the SimpleLink firmware holds for every socket descriptor, and  *)
(* a record of the most recent wrap_socket() call: its arguments, the      *)
(* sl_SetSockOpt calls it made (with the value each returned) and how it   *)
(* ended (an object returned, ValueError or OSError raised).               *)
(*                                                                         *)
(* A C string is a sequence of one-character strings.  A MicroPython       *)
(* argument that is None, a C pointer that is NULL and an option the       *)
(* firmware has never been given are all the empty sequence << >>; a       *)
(* present value v is the one-element sequence << v >>.                    *)
(***************************************************************************)
EXTENDS Integers, Sequences, FiniteSets

VARIABLES heap, sockopt, args, calls, result, nwraps

vars == << heap, sockopt, args, calls, result, nwraps >>

(***************************************************************************)
(* Bounds of the model.                                                    *)
(***************************************************************************)
\* number of wrap_socket() calls in a behaviour
MaxWraps == 2

(***************************************************************************)
(* Program constants.                                                      *)
(***************************************************************************)
SSL_CERT_NONE == 0
SSL_CERT_OPTIONAL == 1
SSL_CERT_REQUIRED == 2

\* &(str[6]): the number of leading bytes skipped ('/flash')
FLASH_PREFIX_LEN == 6

SL_SO_SECMETHOD == "SL_SO_SECMETHOD"
SL_SO_SECURE_FILES_PRIVATE_KEY_FILE_NAME == "SL_SO_SECURE_FILES_PRIVATE_KEY_FILE_NAME"
SL_SO_SECURE_FILES_CERTIFICATE_FILE_NAME == "SL_SO_SECURE_FILES_CERTIFICATE_FILE_NAME"
SL_SO_SECURE_FILES_CA_FILE_NAME == "SL_SO_SECURE_FILES_CA_FILE_NAME"

\* _u8 method = SL_SO_SEC_METHOD_TLSV1, as the bytes handed to sl_SetSockOpt
SL_SO_SEC_METHOD_TLSV1 == << "SL_SO_SEC_METHOD_TLSV1" >>

OptNames == { SL_SO_SECMETHOD,
              SL_SO_SECURE_FILES_PRIVATE_KEY_FILE_NAME,
              SL_SO_SECURE_FILES_CERTIFICATE_FILE_NAME,
              SL_SO_SECURE_FILES_CA_FILE_NAME }

FileOpts == OptNames \ { SL_SO_SECMETHOD }

\* mp_const_none, NULL, and an option never set
None == << >>

Some(v) == << v >>

(***************************************************************************)
(* Inputs.  A str argument is its bytes (which may include NUL), stored    *)
(* with a terminating NUL after them.  The paths include one with a NUL    *)
(* inside, one of exactly six bytes and one shorter than six bytes.        *)
(* cert_reqs is one of the three constants the module exports, and sock is *)
(* an object laid out as a socket (a plain socket, or a wrapper an earlier *)
(* call returned): the function casts it without a check.                  *)
(***************************************************************************)
NUL == "NUL"

Flash == << "/", "f", "l", "a", "s", "h" >>

\* keyfile= arguments: a path under another root of the same length as
\* /flash, with a NUL inside
KeyPaths == { << "/", "s", "d", "0", "0", "0", "/", "k", NUL, "x" >> }

\* certfile= arguments: a path that is the bare root (nothing is left of it
\* after the prefix)
CertPaths == { Flash }

\* ca_certs= arguments: a path under /flash, and one shorter than the prefix
CaPaths == { Flash \o << "/", "a" >>, << "/", "a", "b" >> }

OptionalArg(S) == { None } \cup { Some(p) : p \in S }

CertReqs == { SSL_CERT_NONE, SSL_CERT_OPTIONAL, SSL_CERT_REQUIRED }

\* native (negative) error codes of sl_SetSockOpt
ErrCodes == { -1, -2 }

\* the socket descriptors of the firmware
SDs == { 1, 2 }

ArgSets(h) ==
    [ sock : 1 .. Len(h),
      keyfile : OptionalArg(KeyPaths),
      certfile : OptionalArg(CertPaths),
      server_side : BOOLEAN,
      cert_reqs : CertReqs,
      ca_certs : OptionalArg(CaPaths) ]

\* What can lie in memory after a str's terminating NUL: nothing readable
\* (the end of the block), zero bytes (the padding of an ordinary heap
\* block), or the bytes of some other object.
AfterBytes ==
    { << >>,
      << NUL, NUL, NUL, NUL, NUL, NUL >>,
      << "c", "d", "e", "/", "z", NUL >> }

\* The memory after the terminator matters only for a str too short for
\* the pointer wrap_socket forms into it; cafile's pointer is formed only
\* for CERT_REQUIRED.
AfterOf(arg, formed) ==
    IF formed /\ arg # None /\ Len(arg[1]) < FLASH_PREFIX_LEN
    THEN AfterBytes
    ELSE { << >> }

MemoryAfter(a) ==
    [ keyfile : AfterOf(a.keyfile, TRUE),
      certfile : AfterOf(a.certfile, TRUE),
      ca_certs : AfterOf(a.ca_certs, a.cert_reqs = SSL_CERT_REQUIRED) ]

(***************************************************************************)
(* mod_ssl_wrap_socket, piece by piece.                                    *)
(***************************************************************************)

\* strlen(p) and the bytes it spans, for p pointing at byte k (from 1) of
\* mem: the bytes up to the next NUL.  Reading past the last byte of mem is
\* a fault.
CString(mem, k) ==
    LET ends == { i \in k .. Len(mem) : mem[i] = NUL }
    IN  IF ends = { }
        THEN [ fault |-> TRUE, bytes |-> << >> ]
        ELSE [ fault |-> FALSE,
               bytes |-> SubSeq(mem, k, (CHOOSE i \in ends : \A j \in ends : i <= j) - 1) ]

\* &(mp_obj_str_get_str(o)[6]), as the C string sl_SetSockOpt is handed with
\* strlen() of it: the pointer is formed without a look at the length of
\* the str, so for a str shorter than six bytes it points past the
\* terminator, into whatever follows (after)
StripPrefix(s, after) == CString(s \o << NUL >> \o after, FLASH_PREFIX_LEN + 1)

\* (variant: only CERT_REQUIRED asks for ca_certs)
CaMissing_OnlyRequired(a) == a.cert_reqs = SSL_CERT_REQUIRED /\ a.ca_certs = None

\* line 89: cert_reqs != CERT_NONE and no ca_certs
CaMissing(a) == a.cert_reqs # SSL_CERT_NONE /\ a.ca_certs = None

keyfile(a, m) ==
    IF a.keyfile = None THEN None ELSE Some(StripPrefix(a.keyfile[1], m.keyfile))

certfile(a, m) ==
    IF a.certfile = None THEN None ELSE Some(StripPrefix(a.certfile[1], m.certfile))

\* (variant: the CA file is forwarded for CERT_OPTIONAL too)
cafile_AnyVerification(a, m) ==
    IF a.ca_certs = None \/ a.cert_reqs = SSL_CERT_NONE
    THEN None
    ELSE Some(StripPrefix(a.ca_certs[1], m.ca_certs))

cafile(a, m) ==
    IF a.ca_certs = None \/ a.cert_reqs # SSL_CERT_REQUIRED
    THEN None
    ELSE Some(StripPrefix(a.ca_certs[1], m.ca_certs))

\* (variant: && in place of ||)
ServerSideIncomplete_BothMissing(a, m) ==
    a.server_side /\ (a.keyfile = None /\ a.certfile = None)

\* line 100: server side requires both certfile and keyfile
ServerSideIncomplete(a, m) ==
    a.server_side /\ (keyfile(a, m) = None \/ certfile(a, m) = None)

\* an sl_SetSockOpt call to come: val is what reading the value gives
SetCall(opt, val) == [ opt |-> opt, val |-> val ]

\* (variant: a NULL pointer is passed on, as an empty value)
IfSet_Unguarded(ptr, opt) ==
    IF ptr # None THEN << SetCall(opt, ptr[1]) >>
    ELSE << SetCall(opt, [ fault |-> FALSE, bytes |-> << >> ]) >>

\* if (ptr && sl_SetSockOpt(..., opt, ptr, strlen(ptr)) < 0)
IfSet(ptr, opt) == IF ptr # None THEN << SetCall(opt, ptr[1]) >> ELSE << >>

\* (variant: the certificate file is registered before the private key)
SetSockOptPlan_CertFirst(a, m) ==
    << SetCall(SL_SO_SECMETHOD, [ fault |-> FALSE, bytes |-> SL_SO_SEC_METHOD_TLSV1 ]) >>
      \o IfSet(certfile(a, m), SL_SO_SECURE_FILES_CERTIFICATE_FILE_NAME)
      \o IfSet(keyfile(a, m), SL_SO_SECURE_FILES_PRIVATE_KEY_FILE_NAME)
      \o IfSet(cafile(a, m), SL_SO_SECURE_FILES_CA_FILE_NAME)

\* lines 107-118: the option-set calls wrap_socket goes through, in order,
\* each guarded by its pointer being non-NULL (&method, sizeof(method) is
\* always readable)
SetSockOptPlan(a, m) ==
    << SetCall(SL_SO_SECMETHOD, [ fault |-> FALSE, bytes |-> SL_SO_SEC_METHOD_TLSV1 ]) >>
      \o IfSet(keyfile(a, m), SL_SO_SECURE_FILES_PRIVATE_KEY_FILE_NAME)
      \o IfSet(certfile(a, m), SL_SO_SECURE_FILES_CERTIFICATE_FILE_NAME)
      \o IfSet(cafile(a, m), SL_SO_SECURE_FILES_CA_FILE_NAME)

\* the calls actually made (done): each returns the firmware's answer, and
\* the first negative answer jumps to socket_error; a call whose strlen()
\* faults is not made, and nothing runs after it
\* (rets is what the firmware returns to the first, second, ... call)
RECURSIVE RunCalls(_, _, _)
RunCalls(plan, sd, rets) ==
    IF plan = << >> THEN [ done |-> << >>, fault |-> FALSE ]
    ELSE LET c == Head(plan)
             call == [ sd |-> sd, opt |-> c.opt, val |-> c.val.bytes, ret |-> Head(rets) ]
             rest == RunCalls(Tail(plan), sd, Tail(rets))
         IN  IF c.val.fault THEN [ done |-> << >>, fault |-> TRUE ]
             ELSE IF call.ret < 0 THEN [ done |-> << call >>, fault |-> FALSE ]
             ELSE [ done |-> << call >> \o rest.done, fault |-> rest.fault ]

\* the firmware's side of one sl_SetSockOpt call: a call that succeeds stores
\* the value as the descriptor's option
sl_SetSockOpt(store, c) ==
    IF c.ret < 0 THEN store
    ELSE [ store EXCEPT ![c.sd][c.opt] = Some(c.val) ]

RECURSIVE ApplyCalls(_, _)
ApplyCalls(store, done) ==
    IF done = << >> THEN store
    ELSE ApplyCalls(sl_SetSockOpt(store, Head(done)), Tail(done))

\* (variant: the OSError carries the code with its sign dropped)
RaisedErrno_Positive(done) == 0 - done[Len(done)].ret

\* MP_OBJ_NEW_SMALL_INT(_errno): the code the OSError carries
RaisedErrno(done) == done[Len(done)].ret

\* _errno after the calls: the last value assigned to it
LastErrno(done) == done[Len(done)].ret

\* (variant: any verification mode but CERT_NONE sets the flag)
CertReqFlag_NotNone(a) == a.cert_reqs # SSL_CERT_NONE

\* line 125
CertReqFlag(a) == IF a.cert_reqs = SSL_CERT_REQUIRED THEN TRUE ELSE FALSE

\* (variant: the memcpy of sock_base is missing)
NewSslSock_NoCopy(h, a) ==
    [ type |-> "ussl",
      sock_base |-> [ sd |-> 0, cert_req |-> (a.cert_reqs = SSL_CERT_REQUIRED) ],
      o_sock |-> a.sock ]

\* lines 121-126: the new object's fields
NewSslSock(h, a) ==
    [ type |-> "ussl",
      sock_base |-> [ h[a.sock].sock_base EXCEPT !.cert_req = CertReqFlag(a) ],
      o_sock |-> a.sock ]

\* (variant: one wrapper object per module, reused by every wrap)
AllocObj_Reuse(h, obj) ==
    IF h[Len(h)].type = "ussl" THEN [ h EXCEPT ![Len(h)] = obj ] ELSE Append(h, obj)

\* m_new_obj: a fresh object at the end of the heap
AllocObj(h, obj) == Append(h, obj)

NoResult == [ kind |-> "none", errno |-> 0, obj |-> 0 ]

\* arg_error:
arg_error(h, store) ==
    [ heap |-> h, sockopt |-> store, calls |-> << >>,
      result |-> [ kind |-> "ValueError", errno |-> 0, obj |-> 0 ] ]

\* (variant: the options set before the failing call are undone)
socket_error_Rollback(h, before, after, done) ==
    [ heap |-> h, sockopt |-> before, calls |-> done,
      result |-> [ kind |-> "OSError", errno |-> done[Len(done)].ret, obj |-> 0 ] ]

\* socket_error: raised with whatever the calls made so far left behind
\* (before: the options at entry, which nothing restores)
socket_error(h, before, after, done) ==
    [ heap |-> h, sockopt |-> after, calls |-> done,
      result |-> [ kind |-> "OSError", errno |-> RaisedErrno(done), obj |-> 0 ] ]

\* strlen() read past the end of readable memory: the program stops there,
\* with the calls made so far behind it
read_fault(h, after, done) ==
    [ heap |-> h, sockopt |-> after, calls |-> done,
      result |-> [ kind |-> "fault", errno |-> 0, obj |-> 0 ] ]

\* return ssl_sock
return_ssl_sock(h, after, done, a) ==
    LET h2 == AllocObj(h, NewSslSock(h, a))
    IN  [ heap |-> h2, sockopt |-> after, calls |-> done,
          result |-> [ kind |-> "ok", errno |-> 0, obj |-> Len(h2) ] ]

\* m: the memory after each str argument; rets: the firmware's returns
mod_ssl_wrap_socket(h, store, a, m, rets) ==
    IF CaMissing(a) THEN arg_error(h, store)
    ELSE IF ServerSideIncomplete(a, m) THEN arg_error(h, store)
    ELSE LET sd == h[a.sock].sock_base.sd
             run == RunCalls(SetSockOptPlan(a, m), sd, rets)
             after == ApplyCalls(store, run.done)
         IN  IF run.fault
             THEN read_fault(h, after, run.done)
             ELSE IF LastErrno(run.done) < 0
             THEN socket_error(h, store, after, run.done)
             ELSE return_ssl_sock(h, after, run.done, a)

(***************************************************************************)
(* The state machine.                                                      *)
(***************************************************************************)
PlainSocket(sd) ==
    [ type |-> "socket", sock_base |-> [ sd |-> sd, cert_req |-> FALSE ], o_sock |-> 0 ]

NoArgs ==
    [ sock |-> 0, keyfile |-> None, certfile |-> None, server_side |-> FALSE,
      cert_reqs |-> SSL_CERT_NONE, ca_certs |-> None ]

\* The number of sl_SetSockOpt calls a request can lead to: none when it is
\* refused, else those before the first one whose value cannot be read.
NumCalls(a, m) ==
    IF CaMissing(a) \/ ServerSideIncomplete(a, m) THEN 0
    ELSE LET plan == SetSockOptPlan(a, m)
             bad == { i \in DOMAIN plan : plan[i].val.fault }
         IN  IF bad = { } THEN Len(plan)
             ELSE (CHOOSE i \in bad : \A j \in bad : i <= j) - 1

\* What the firmware may return to the successive sl_SetSockOpt calls of one
\* wrap: 0 to each of them, or 0 to some and then an error code, after which
\* wrap_socket makes no further call.
FirmwareReturns(n) ==
    { [ i \in 1 .. n |-> 0 ] }
      \cup { [ i \in 1 .. k |-> IF i < k THEN 0 ELSE e ] : k \in 1 .. n, e \in ErrCodes }

Init ==
    /\ heap = << PlainSocket(1) >>
    /\ sockopt = [ sd \in SDs |-> [ o \in OptNames |-> None ] ]
    /\ args = NoArgs
    /\ calls = << >>
    /\ result = NoResult
    /\ nwraps = 0

\* one call of ussl.wrap_socket(); none follows a fault
Wrap ==
    /\ nwraps < MaxWraps
    /\ result.kind # "fault"
    /\ \E a \in ArgSets(heap) :
         \E m \in MemoryAfter(a) :
         \E rets \in FirmwareReturns(NumCalls(a, m)) :
         \E out \in { mod_ssl_wrap_socket(heap, sockopt, a, m, rets) } :
             /\ heap' = out.heap
             /\ sockopt' = out.sockopt
             /\ calls' = out.calls
             /\ result' = out.result
             /\ args' = a
    /\ nwraps' = nwraps + 1

Next == Wrap

Spec == Init /\ [][Next]_vars

(***************************************************************************)
(* Vocabulary of the properties, stated on the arguments of the most       *)
(* recent wrap and on what it left behind.                                 *)
(***************************************************************************)
Wrapped == nwraps > 0

Made(o) == \E i \in DOMAIN calls : calls[i].opt = o

AllSucceeded(cs) == \A i \in DOMAIN cs : cs[i].ret = 0

CallOpts(cs) == [ i \in DOMAIN cs |-> cs[i].opt ]

\* server_side with key_file or cert_file absent
ServerSideViolated(a) == a.server_side /\ (a.keyfile = None \/ a.certfile = None)

\* the file name a path of at least six bytes stands for: its bytes past
\* the first six, up to the first NUL among them if there is one
Suffix(path) ==
    LET rest == [ i \in 1 .. (Len(path) - 6) |-> path[i + 6] ]
        nuls == { i \in DOMAIN rest : rest[i] = NUL }
    IN  IF nuls = { } THEN rest
        ELSE [ i \in 1 .. ((CHOOSE n \in nuls : \A k \in nuls : n <= k) - 1) |-> rest[i] ]

\* the option-set calls the request asks for, in the documented order
ExpectedOpts(a) ==
    << SL_SO_SECMETHOD >>
      \o (IF a.keyfile # None THEN << SL_SO_SECURE_FILES_PRIVATE_KEY_FILE_NAME >> ELSE << >>)
      \o (IF a.certfile # None THEN << SL_SO_SECURE_FILES_CERTIFICATE_FILE_NAME >> ELSE << >>)
      \o (IF a.ca_certs # None /\ a.cert_reqs = SSL_CERT_REQUIRED
          THEN << SL_SO_SECURE_FILES_CA_FILE_NAME >> ELSE << >>)

\* the argument a file option is taken from, when the request forwards it
Forwarded(a, o) ==
    IF o = SL_SO_SECURE_FILES_PRIVATE_KEY_FILE_NAME THEN a.keyfile
    ELSE IF o = SL_SO_SECURE_FILES_CERTIFICATE_FILE_NAME THEN a.certfile
    ELSE IF a.cert_reqs = SSL_CERT_REQUIRED THEN a.ca_certs
    ELSE None

\* the path convention: every path the request forwards has the six bytes
\* of the root prefix
PathsUnderRoot(a) ==
    \A o \in FileOpts : Forwarded(a, o) # None => Len(Forwarded(a, o)[1]) >= 6

\* a step of the state machine that is a wrap call
WrapStep == nwraps' = nwraps + 1

(***************************************************************************)
(* C1.  A wrap whose cert_requirement is not NONE and whose ca_file is     *)
(* absent fails with the invalid-arguments error, makes no option-set      *)
(* call, and leaves every security option of every descriptor (and the     *)
(* heap) as it was before the call.                                        *)
(***************************************************************************)
C1_CaMissingRejected ==
    [][ (WrapStep /\ args'.cert_reqs # SSL_CERT_NONE /\ args'.ca_certs = None)
          => /\ result'.kind = "ValueError"
             /\ calls' = << >>
             /\ sockopt' = sockopt
             /\ heap' = heap ]_vars

\* a second wrap, CERT_OPTIONAL without ca_certs but with a key file, is
\* refused on a descriptor the first wrap has configured
C1_Witness ==
    /\ nwraps = 2
    /\ args.cert_reqs = SSL_CERT_OPTIONAL
    /\ args.ca_certs = None
    /\ args.keyfile # None
    /\ ~args.server_side
    /\ result.kind = "ValueError"
    /\ sockopt[1][SL_SO_SECMETHOD] # None
    /\ sockopt[1][SL_SO_SECURE_FILES_PRIVATE_KEY_FILE_NAME] = None

(***************************************************************************)
(* C2.  A wrap with server_side true and key_file or cert_file absent      *)
(* fails with the invalid-arguments error before any option-set call: not  *)
(* even the TLS-method call has been made.                                 *)
(***************************************************************************)
C2_ServerSideRejected ==
    (Wrapped /\ ServerSideViolated(args))
      => (result.kind = "ValueError" /\ calls = << >> /\ ~Made(SL_SO_SECMETHOD))

\* server side with a key file and no certificate file, nothing else wrong
C2_Witness ==
    /\ Wrapped
    /\ args.server_side
    /\ args.keyfile # None
    /\ args.certfile = None
    /\ args.cert_reqs = SSL_CERT_NONE
    /\ result.kind = "ValueError"
    /\ calls = << >>

(***************************************************************************)
(* C3, as stated: with cert_requirement = OPTIONAL and any ca_file value,  *)
(* present or absent (the request otherwise valid, its key and certificate *)
(* paths under the root, every option-set call succeeding), wrap succeeds  *)
(* and makes no CA-file option-set call.                                   *)
(***************************************************************************)
C3_OptionalAlwaysSucceeds ==
    (Wrapped /\ args.cert_reqs = SSL_CERT_OPTIONAL
       /\ ~ServerSideViolated(args) /\ PathsUnderRoot(args) /\ AllSucceeded(calls))
      => (result.kind = "ok" /\ ~Made(SL_SO_SECURE_FILES_CA_FILE_NAME))

(***************************************************************************)
(* C3, amended: with cert_requirement = OPTIONAL no CA-file option-set     *)
(* call is ever made, whatever the bytes of ca_file, even fewer than six   *)
(* (the path is never read, so reading it cannot fault); the               *)
(* wrap succeeds when ca_file is present (the request otherwise valid, its *)
(* key and certificate paths under the root, every option-set call         *)
(* succeeding) and fails with the invalid-arguments error, without any     *)
(* option-set call, when ca_file is absent.                                *)
(***************************************************************************)
C3_OptionalNeverForwardsCa ==
    (Wrapped /\ args.cert_reqs = SSL_CERT_OPTIONAL)
      => /\ ~Made(SL_SO_SECURE_FILES_CA_FILE_NAME)
         /\ args.ca_certs = None => (result.kind = "ValueError" /\ calls = << >>)
         /\ (/\ args.ca_certs # None
             /\ ~ServerSideViolated(args)
             /\ PathsUnderRoot(args)
             /\ AllSucceeded(calls))
              => result.kind = "ok"
         /\ PathsUnderRoot(args) => result.kind # "fault"

\* a first wrap, CERT_OPTIONAL with ca_certs, succeeds and the descriptor
\* has no CA file
C3_Witness ==
    /\ nwraps = 1
    /\ args.cert_reqs = SSL_CERT_OPTIONAL
    /\ args.ca_certs # None
    /\ result.kind = "ok"
    /\ Made(SL_SO_SECMETHOD)
    /\ sockopt[1][SL_SO_SECURE_FILES_CA_FILE_NAME] = None

(***************************************************************************)
(* C4.  When an option-set call of a wrap returns a negative code X, the   *)
(* wrap raises an OSError carrying exactly X, that call is the last one    *)
(* the wrap makes (every earlier one returned 0), and no object is         *)
(* allocated or returned.                                                  *)
(***************************************************************************)
C4_SocketErrorCarriesCode ==
    [][ (WrapStep /\ \E i \in DOMAIN calls' : calls'[i].ret < 0)
          => /\ result'.kind = "OSError"
             /\ result'.errno = calls'[Len(calls')].ret
             /\ result'.errno < 0
             /\ \A i \in 1 .. (Len(calls') - 1) : calls'[i].ret = 0
             /\ result'.obj = 0
             /\ heap' = heap ]_vars

\* the TLS-method call itself fails with code -2
C4_Witness ==
    /\ Wrapped
    /\ Len(calls) = 1
    /\ calls[1].opt = SL_SO_SECMETHOD
    /\ calls[1].ret = -2
    /\ result.kind = "OSError"
    /\ result.errno = -2
    /\ Len(heap) = 1

(***************************************************************************)
(* C5.  After a wrap that raised an OSError, every option set by the       *)
(* calls of that wrap that succeeded is still applied on the descriptor,   *)
(* and no option was set twice by the wrap (the failed call is not         *)
(* retried).                                                               *)
(***************************************************************************)
C5_NoCleanupNoRetry ==
    (Wrapped /\ result.kind = "OSError")
      => /\ \A i \in DOMAIN calls :
              calls[i].ret = 0 => sockopt[calls[i].sd][calls[i].opt] = Some(calls[i].val)
         /\ \A i, j \in DOMAIN calls : calls[i].opt = calls[j].opt => i = j
         /\ calls[Len(calls)].ret < 0

\* the first wrap fails at its third call: method and key file stay applied
C5_Witness ==
    /\ nwraps = 1
    /\ result.kind = "OSError"
    /\ Len(calls) = 3
    /\ sockopt[1][SL_SO_SECMETHOD] = Some(SL_SO_SEC_METHOD_TLSV1)
    /\ sockopt[1][SL_SO_SECURE_FILES_PRIVATE_KEY_FILE_NAME] = Some(<< "/", "k" >>)
    /\ sockopt[1][SL_SO_SECURE_FILES_CERTIFICATE_FILE_NAME] = None

(***************************************************************************)
(* C6.  A wrap with cert_requirement = REQUIRED and a valid ca_file (every *)
(* path it forwards under the root, so at least six bytes long), all of    *)
(* its option-set calls succeeding, succeeds (exactly when the server-side     *)
(* requirement on key_file and cert_file is met, which the default         *)
(* server_side = false always does), and returns a new object whose        *)
(* transport state is the original socket's, whose certificate-required    *)
(* flag is true, whose type is the secure-socket type and which refers to  *)
(* the original socket object.                                             *)
(***************************************************************************)
C6_RequiredWrapResult ==
    (Wrapped /\ args.cert_reqs = SSL_CERT_REQUIRED /\ args.ca_certs # None
       /\ PathsUnderRoot(args) /\ AllSucceeded(calls))
      => /\ result.kind = "ok" <=> ~ServerSideViolated(args)
         /\ result.kind = "ok" =>
              /\ result.obj \in DOMAIN heap
              /\ result.obj # args.sock
              /\ heap[result.obj].type = "ussl"
              /\ heap[result.obj].sock_base.sd = heap[args.sock].sock_base.sd
              /\ [ heap[result.obj].sock_base
                     EXCEPT !.cert_req = heap[args.sock].sock_base.cert_req ]
                   = heap[args.sock].sock_base
              /\ heap[result.obj].sock_base.cert_req = TRUE
              /\ heap[result.obj].o_sock = args.sock

\* the plain socket wrapped with CERT_REQUIRED, a CA file and nothing else
C6_Witness ==
    /\ Wrapped
    /\ args.cert_reqs = SSL_CERT_REQUIRED
    /\ args.ca_certs # None
    /\ ~args.server_side
    /\ args.keyfile = None
    /\ result.kind = "ok"
    /\ heap[args.sock].type = "socket"
    /\ heap[args.sock].sock_base.cert_req = FALSE
    /\ heap[result.obj].sock_base.cert_req = TRUE
    /\ heap[result.obj].sock_base.sd = 1
    /\ sockopt[1][SL_SO_SECURE_FILES_CA_FILE_NAME] = Some(<< "/", "a" >>)

(***************************************************************************)
(* C7.  Whatever wraps came before, a wrap with a valid request (its       *)
(* forwarded paths under the root, at least six bytes long) whose          *)
(* option-set calls all succeed succeeds; a successful wrap returns an     *)
(* object that did not exist before, holding the descriptor of the socket  *)
(* it wraps, and leaves every object that existed (earlier wrappers with   *)
(* their transport state and certificate-required flag included) as it     *)
(* was.                                                                    *)
(***************************************************************************)
C7_WrapsAreIndependent ==
    [][ WrapStep =>
          /\ (/\ ~(args'.cert_reqs # SSL_CERT_NONE /\ args'.ca_certs = None)
              /\ ~ServerSideViolated(args')
              /\ PathsUnderRoot(args')
              /\ AllSucceeded(calls'))
               => result'.kind = "ok"
          /\ result'.kind = "ok" =>
               /\ result'.obj \notin DOMAIN heap
               /\ result'.obj \in DOMAIN heap'
               /\ \A i \in DOMAIN heap : i \in DOMAIN heap' /\ heap'[i] = heap[i]
               /\ heap'[result'.obj].sock_base.sd = heap[args'.sock].sock_base.sd ]_vars

\* the plain socket wrapped twice, with different configurations: two
\* wrappers on its descriptor
C7_Witness ==
    /\ Len(heap) = 3
    /\ heap[1].type = "socket"
    /\ heap[2].o_sock = 1
    /\ heap[3].o_sock = 1
    /\ heap[2].sock_base.cert_req # heap[3].sock_base.cert_req
    /\ heap[2].sock_base.sd = heap[1].sock_base.sd
    /\ heap[3].sock_base.sd = heap[1].sock_base.sd
    /\ result.kind = "ok"
    /\ result.obj = 3

(***************************************************************************)
(* C8, as stated: every wrap that passes argument validation (its          *)
(* forwarded paths under the root) makes exactly the calls TLS method,     *)
(* then key file iff key_file is present, then certificate file iff        *)
(* cert_file is present, then CA file iff ca_file is present and           *)
(* cert_requirement = REQUIRED, each once.                                 *)
(***************************************************************************)
C8_AllExpectedCallsMade ==
    (Wrapped /\ result.kind # "ValueError" /\ PathsUnderRoot(args))
      => CallOpts(calls) = ExpectedOpts(args)

(***************************************************************************)
(* C8, amended: every wrap that passes argument validation makes the calls *)
(* TLS method, key file (if key_file is present), certificate file (if     *)
(* cert_file is present), CA file (if ca_file is present and               *)
(* cert_requirement = REQUIRED) in that order, each at most once, up to    *)
(* and including the first one that fails: the TLS-method call is always   *)
(* made and is first, a later call is made iff its argument is present     *)
(* and every earlier call succeeded, and the wrapper is allocated iff all  *)
(* of the expected calls were made and succeeded.  (The calls stop short   *)
(* of a failure only when the file name of a forwarded path cannot be      *)
(* read, which takes a path shorter than six bytes.)                       *)
(***************************************************************************)
C8_CallsInOrderUntilFailure ==
    (Wrapped /\ result.kind # "ValueError")
      => LET e == ExpectedOpts(args)
             n == Len(calls)
         IN  /\ n >= 1
             /\ n <= Len(e)
             /\ CallOpts(calls) = SubSeq(e, 1, n)
             /\ calls[1].opt = SL_SO_SECMETHOD
             /\ \A i \in 1 .. (n - 1) : calls[i].ret = 0
             /\ n < Len(e) => (calls[n].ret < 0 \/ result.kind = "fault")
             /\ result.kind = "fault" => (n < Len(e) /\ ~PathsUnderRoot(args))
             /\ result.kind = "ok" <=> (n = Len(e) /\ calls[n].ret = 0)
             /\ result.kind = "ok" => result.obj = Len(heap)

\* all four calls made, in order, and the wrapper allocated
C8_Witness ==
    /\ Wrapped
    /\ result.kind = "ok"
    /\ CallOpts(calls) = << SL_SO_SECMETHOD,
                            SL_SO_SECURE_FILES_PRIVATE_KEY_FILE_NAME,
                            SL_SO_SECURE_FILES_CERTIFICATE_FILE_NAME,
                            SL_SO_SECURE_FILES_CA_FILE_NAME >>

(***************************************************************************)
(* C9.  The wrapper a successful wrap returns has its certificate-required *)
(* flag set iff cert_requirement = REQUIRED, whatever the flag of the      *)
(* wrapped object is, and the wrapped object is left as it was.            *)
(***************************************************************************)
C9_FlagIffRequired ==
    [][ (WrapStep /\ result'.kind = "ok")
          => /\ heap'[result'.obj].sock_base.cert_req
                  = (args'.cert_reqs = SSL_CERT_REQUIRED)
             /\ heap'[args'.sock] = heap[args'.sock] ]_vars

\* a wrapper whose flag is set, wrapped again with CERT_OPTIONAL and a CA
\* file: the new wrapper's flag is clear, the old one's still set
C9_Witness ==
    /\ Wrapped
    /\ result.kind = "ok"
    /\ args.cert_reqs = SSL_CERT_OPTIONAL
    /\ args.ca_certs # None
    /\ heap[args.sock].type = "ussl"
    /\ heap[args.sock].sock_base.cert_req = TRUE
    /\ heap[result.obj].sock_base.cert_req = FALSE

(***************************************************************************)
(* C10.  A wrap never clears a security option of a descriptor: an option  *)
(* that is set stays set; a file option the request does not forward (no   *)
(* key_file, no cert_file, no ca_file or cert_requirement not REQUIRED)    *)
(* keeps its value; and a file option that changes takes the value that a  *)
(* successful call of that wrap was given for it, which for a path         *)
(* of at least six bytes is its file name (the bytes past the six-byte     *)
(* prefix); after a wrap that succeeded, every file option its request     *)
(* forwards holds the value of that wrap's call on the wrapped socket's    *)
(* descriptor.                                                             *)
(***************************************************************************)
C10_OptionsOnlyWritten ==
    [][ \A sd \in SDs :
          /\ \A o \in OptNames : sockopt[sd][o] # None => sockopt'[sd][o] # None
          /\ sockopt'[sd][SL_SO_SECMETHOD] \in { sockopt[sd][SL_SO_SECMETHOD],
                                                  Some(SL_SO_SEC_METHOD_TLSV1) }
          /\ \A o \in FileOpts :
               /\ Forwarded(args', o) = None => sockopt'[sd][o] = sockopt[sd][o]
               /\ sockopt'[sd][o] # sockopt[sd][o]
                    => /\ sd = heap[args'.sock].sock_base.sd
                       /\ Forwarded(args', o) # None
                       /\ \E i \in DOMAIN calls' :
                            /\ calls'[i].opt = o
                            /\ calls'[i].ret = 0
                            /\ sockopt'[sd][o] = Some(calls'[i].val)
                       /\ Len(Forwarded(args', o)[1]) >= 6
                            => sockopt'[sd][o] = Some(Suffix(Forwarded(args', o)[1]))
               /\ (/\ WrapStep
                   /\ result'.kind = "ok"
                   /\ sd = heap[args'.sock].sock_base.sd
                   /\ Forwarded(args', o) # None)
                    => /\ \E i \in DOMAIN calls' :
                            /\ calls'[i].opt = o
                            /\ sockopt'[sd][o] = Some(calls'[i].val)
                       /\ Len(Forwarded(args', o)[1]) >= 6
                            => sockopt'[sd][o] = Some(Suffix(Forwarded(args', o)[1])) ]_vars

\* a successful wrap with CERT_NONE on a descriptor that keeps the CA file
\* and key file of an earlier wrap: its wrapper does not require a
\* certificate
C10_Witness ==
    /\ nwraps = 2
    /\ result.kind = "ok"
    /\ args.cert_reqs = SSL_CERT_NONE
    /\ args.keyfile = None
    /\ heap[result.obj].sock_base.cert_req = FALSE
    /\ sockopt[heap[result.obj].sock_base.sd][SL_SO_SECURE_FILES_CA_FILE_NAME]
         = Some(<< "/", "a" >>)
    /\ sockopt[heap[result.obj].sock_base.sd][SL_SO_SECURE_FILES_PRIVATE_KEY_FILE_NAME]
         = Some(<< "/", "k" >>)

====
